---- MODULE Spec2Model ----
(***************************************************************************)
(* podstats (cmd/podstats/main.go): the aggregation table (MetricsHolder), *)
(* its HTTP handler, the watch reconnector (NewWatcher) and the list       *)
(* poller (ShovelList), as state machines.                                 *)
(*                                                                         *)
(* Goroutines are processes with a program counter; every action is one    *)
(* step of one goroutine (or of its environment: a producer sending on the *)
(* table's channel, an HTTP request, the API server, a timer).             *)
(***************************************************************************)
EXTENDS Integers, Sequences, FiniteSets, TLC

\* ------------------------------------------------------------------ bounds

\* Readings submitted on the table's channel over a run (sent or being sent).
MaxSends == 3

\* ------------------------------------------------------------ Reading, Accept

\* main.go:29-35: Counter MetricType = iota + 1; Instant follows.
Counter == 1
Instant == 2
\* The zero value of MetricType: a Reading whose Type was never set.
Unset == 0

MetricTypes == {Unset, Counter, Instant}

Keys == {"a", "b"}
Values == {1}
\* Reading.Time is an opaque timestamp string; the model's timestamps are the
\* ordinal numbers of the observations, so no two readings share one.
Times == 1..MaxSends

\* main.go:38-43. Value is a float64 in the source; the model uses the small
\* non-negative integers, on which float64 addition is exact.
Readings == [Key : Keys, Value : Values, Time : Times, Type : MetricTypes]

\* A nil *Reading: the content of a map slot that mapassign has created and
\* the caller has not stored into yet.
NilReading == [Key |-> "nil", Value |-> 0, Time |-> 0, Type |-> Unset]

\* The zero Reading: freshly allocated memory, before `result := *r` fills it.
ZeroReading == [Key |-> "", Value |-> 0, Time |-> 0, Type |-> Unset]

\* main.go:47, result := *r
AcceptCopy(r) == r

\* A variant of AcceptValue with the slip of testing the receiver's Type.
AcceptValueByReceiver(result, new) ==
    IF result.Type = Counter THEN [result EXCEPT !.Value = @ + new.Value]
    ELSE IF result.Type = Instant THEN [result EXCEPT !.Value = new.Value]
    ELSE result

\* main.go:48-49 and 51-52: the update of result.Value
AcceptValue(result, new) ==
    IF new.Type = Counter THEN [result EXCEPT !.Value = @ + new.Value]
    ELSE IF new.Type = Instant THEN [result EXCEPT !.Value = new.Value]
    ELSE result

\* A variant of AcceptTime that also takes over the incoming reading's Type.
AcceptTimeAndType(result, new) ==
    IF new.Type = Counter
    THEN [result EXCEPT !.Time = new.Time, !.Type = new.Type]
    ELSE IF new.Type = Instant
    THEN [result EXCEPT !.Time = new.Time, !.Type = new.Type]
    ELSE result

\* main.go:50 and 53: the update of result.Time
AcceptTime(result, new) ==
    IF new.Type = Counter THEN [result EXCEPT !.Time = new.Time]
    ELSE IF new.Type = Instant THEN [result EXCEPT !.Time = new.Time]
    ELSE result

\* main.go:46-56, Reading.Accept
Accept(r, new) == AcceptTime(AcceptValue(AcceptCopy(r), new), new)

\* ------------------------------------------------------------------ state

VARIABLES
    lines,      \* MetricsHolder.lines: key -> stored Reading (DOMAIN = the keys)
    sending,    \* per producer: <<r>> while blocked in `channel <- r`, else <<>>
    wpc,        \* the writer goroutine's position
    wReading,   \* writer: `reading`, the reading received
    wVal,       \* writer: `val`, the reading found in the map
    wResult,    \* writer: Accept's `result`
    hpc,        \* the handler's position
    hStart,     \* keys of the map when the handler's range began
    hVisited,   \* keys the handler's range has produced
    body,       \* the response body: the lines written
    crashed,    \* the Go runtime ended the process (fatal error)
    completed,  \* history: readings in the order their sends completed
    merged,     \* history: readings in the order the writer stored their merge
    chClosed,   \* MetricsHolder.channel has been closed
    hQuiet,     \* history: the writer has been blocked in its receive ever
                \* since the latest request began
    \* Reading.Accept on its own
    accR,       \* the receiver r
    accN,       \* the argument new
    accOut,     \* the Reading returned
    accPc,      \* "off", "call" (inputs chosen) or "ret" (Accept has returned)
    \* NewWatcher
    wtpc,       \* the watcher goroutine's position
    wtDone,     \* its `done`
    bookmark,   \* its `bookmark`
    wtEvent,    \* the event its select received
    stream,     \* the result channel of its watch: "none", "open", "closed"
    evPending,  \* <<e>> while the API server is blocked sending e on it
    closerW,    \* the caller of NewWatcher's Closer: "idle", "sending", "returned"
    sleepLeft,  \* seconds left of the watcher's time.Sleep
    lastRV,     \* ResourceVersion of the latest Watch call ("" for none)
    watched,    \* history: a Watch call has been made
    lastSeen,   \* history: the token of the latest bookmark event converted
    waited,     \* history: seconds slept since the latest Watch call
    calledAtW,  \* history: what the watcher was doing when its Closer was invoked
    skipped,    \* history: the event processed latest was a data event whose
                \* conversion failed
    againW,     \* the caller's second invocation of NewWatcher's Closer
    failures,   \* history: Watch calls that failed in a row (up to MaxFailures)
    \* ShovelList
    plpc,       \* the poller goroutine's position
    plDone,     \* its `done`
    plErr,      \* the latest List call failed
    plItems,    \* items of `list` still to range over
    tickBuf,    \* ticker.C (capacity 1) holds a tick
    closerL,    \* the caller of ShovelList's Closer
    calledAtL,  \* history: what the poller was doing when its Closer was invoked
    againL,     \* the caller's second invocation of ShovelList's Closer
    printed,    \* history: the poller has printed an item of a list
    sinkSends   \* history: sends the two tasks made on their sink channel

tableVars == <<lines, sending, wpc, wReading, wVal, wResult, hpc, hStart,
               hVisited, body, crashed, completed, merged, chClosed, hQuiet>>

accVars == <<accR, accN, accOut, accPc>>

watcherVars == <<wtpc, wtDone, bookmark, wtEvent, stream, evPending, closerW,
                 sleepLeft, lastRV, watched, lastSeen, waited, calledAtW,
                 skipped, againW, failures>>

pollerVars == <<plpc, plDone, plErr, plItems, tickBuf, closerL, calledAtL,
                againL, printed>>

vars == <<tableVars, accVars, watcherVars, pollerVars, sinkSends>>

\* What a step of the table, its producers or the handler leaves alone.
notTable == <<accVars, watcherVars, pollerVars, sinkSends>>

Procs == {"p1", "p2"}

\* main.go:65-69, NewMetrics: an empty map, an unbuffered channel, the writer
\* goroutine about to receive.
InitTable ==
    /\ lines = <<>>
    /\ sending = [p \in Procs |-> <<>>]
    /\ wpc = "recv"
    /\ wReading = ZeroReading
    /\ wVal = ZeroReading
    /\ wResult = ZeroReading
    /\ hpc = "idle"
    /\ hStart = {}
    /\ hVisited = {}
    /\ body = <<>>
    /\ crashed = FALSE
    /\ completed = <<>>
    /\ merged = <<>>
    /\ chClosed = FALSE
    /\ hQuiet = FALSE


\* Number of readings whose send has begun.
Submitted == Len(completed) + Cardinality({p \in Procs : sending[p] # <<>>})

\* A variant of MapStore that stores into a fresh map.
MapStoreFresh(m, key, v) == [k \in {key} |-> v]

\* m.lines[key] = v
MapStore(m, key, v) ==
    [k \in (DOMAIN m) \cup {key} |-> IF k = key THEN v ELSE m[k]]

\* main.go:88-90 and a caller's `m.Channel() <- r`: producer p begins a send on
\* the unbuffered channel and blocks until the writer receives.
ProducerSend(p, r) ==
    /\ ~crashed
    /\ sending[p] = <<>>
    /\ Submitted < MaxSends
    /\ r.Time = Submitted + 1
    /\ ~chClosed
    /\ sending' = [sending EXCEPT ![p] = <<r>>]
    /\ UNCHANGED <<lines, wpc, wReading, wVal, wResult, hpc, hStart, hVisited,
                   body, crashed, completed, merged>>
    /\ UNCHANGED <<chClosed, hQuiet>>
    /\ UNCHANGED notTable

\* main.go:72-76: w, ok := <-m.channel with ok true; reading := w.(*Reading).
\* The receive completes the send of one blocked producer.
WriterRecv(p) ==
    /\ ~crashed
    /\ wpc = "recv"
    /\ sending[p] # <<>>
    /\ wReading' = sending[p][1]
    /\ sending' = [sending EXCEPT ![p] = <<>>]
    /\ completed' = Append(completed, sending[p][1])
    /\ wpc' = "lookup"
    /\ hQuiet' = FALSE
    /\ UNCHANGED <<lines, wVal, wResult, hpc, hStart, hVisited, body, crashed,
                   merged, chClosed>>
    /\ UNCHANGED notTable

\* main.go:88-90: the holder of m.Channel() closes it, its sends all completed
\* (close is allowed on a send-only channel).
CloseChannel ==
    /\ ~crashed
    /\ ~chClosed
    /\ \A p \in Procs : sending[p] = <<>>
    /\ chClosed' = TRUE
    /\ UNCHANGED <<lines, sending, wpc, wReading, wVal, wResult, hpc, hStart,
                   hVisited, body, crashed, completed, merged, hQuiet>>
    /\ UNCHANGED notTable

\* main.go:72-73: the receive on the closed channel returns w = nil and
\* ok = false; line 73 then asserts w.(*Reading) before ok is tested (74).
\* The single-value type assertion on a nil interface panics, and a panic in
\* the writer goroutine, which nothing recovers, ends the process.
WriterRecvClosed ==
    /\ ~crashed
    /\ wpc = "recv"
    /\ chClosed
    /\ wpc' = "panic"
    /\ crashed' = TRUE
    /\ UNCHANGED <<lines, sending, wReading, wVal, wResult, hpc, hStart,
                   hVisited, body, completed, merged, chClosed, hQuiet>>
    /\ UNCHANGED notTable

\* main.go:77: val, ok := m.lines[reading.Key]
WriterLookup ==
    /\ ~crashed
    /\ wpc = "lookup"
    /\ IF wReading.Key \in DOMAIN lines
       THEN /\ wVal' = lines[wReading.Key]
            /\ wpc' = "alloc"
       ELSE /\ wVal' = wVal
            /\ wpc' = "assignNew"
    /\ UNCHANGED <<lines, sending, wReading, wResult, hpc, hStart, hVisited,
                   body, crashed, completed, merged>>
    /\ UNCHANGED <<chClosed, hQuiet>>
    /\ UNCHANGED notTable

\* main.go:47: the allocation of result (it escapes: Accept returns &result).
AcceptAlloc ==
    /\ ~crashed
    /\ wpc = "alloc"
    /\ wResult' = ZeroReading
    /\ wpc' = "copy"
    /\ UNCHANGED <<lines, sending, wReading, wVal, hpc, hStart, hVisited, body,
                   crashed, completed, merged>>
    /\ UNCHANGED <<chClosed, hQuiet>>
    /\ UNCHANGED notTable

\* main.go:47: result := *r
AcceptCopyStep ==
    /\ ~crashed
    /\ wpc = "copy"
    /\ wResult' = AcceptCopy(wVal)
    /\ wpc' = "value"
    /\ UNCHANGED <<lines, sending, wReading, wVal, hpc, hStart, hVisited, body,
                   crashed, completed, merged>>
    /\ UNCHANGED <<chClosed, hQuiet>>
    /\ UNCHANGED notTable

\* main.go:48-49, 51-52
AcceptValueStep ==
    /\ ~crashed
    /\ wpc = "value"
    /\ wResult' = AcceptValue(wResult, wReading)
    /\ wpc' = "time"
    /\ UNCHANGED <<lines, sending, wReading, wVal, hpc, hStart, hVisited, body,
                   crashed, completed, merged>>
    /\ UNCHANGED <<chClosed, hQuiet>>
    /\ UNCHANGED notTable

\* main.go:50, 53, 55
AcceptTimeStep ==
    /\ ~crashed
    /\ wpc = "time"
    /\ wResult' = AcceptTime(wResult, wReading)
    /\ wpc' = "assign"
    /\ UNCHANGED <<lines, sending, wReading, wVal, hpc, hStart, hVisited, body,
                   crashed, completed, merged>>
    /\ UNCHANGED <<chClosed, hQuiet>>
    /\ UNCHANGED notTable

\* main.go:78: m.lines[reading.Key] = val.Accept(reading), the key present: the
\* writer enters runtime.mapassign, which marks the map as being written.
WriterAssign ==
    /\ ~crashed
    /\ wpc = "assign"
    /\ wpc' = "assigning"
    /\ UNCHANGED <<lines, sending, wReading, wVal, wResult, hpc, hStart,
                   hVisited, body, crashed, completed, merged>>
    /\ UNCHANGED <<chClosed, hQuiet>>
    /\ UNCHANGED notTable

\* A variant of WriterStoreMerged that goes on to merge the same reading again.
WriterStoreMergedTwice ==
    /\ ~crashed
    /\ wpc = "assigning"
    /\ lines' = MapStore(lines, wReading.Key, wResult)
    /\ merged' = Append(merged, wReading)
    /\ wpc' = IF Len(merged) < Len(completed) THEN "lookup" ELSE "recv"
    /\ UNCHANGED <<sending, wReading, wVal, wResult, hpc, hStart, hVisited,
                   body, crashed, completed>>
    /\ UNCHANGED <<chClosed, hQuiet>>
    /\ UNCHANGED notTable

\* main.go:78: mapassign returns the key's slot and the new pointer is stored
\* into it; the loop goes back to the receive.
WriterStoreMerged ==
    /\ ~crashed
    /\ wpc = "assigning"
    /\ lines' = MapStore(lines, wReading.Key, wResult)
    /\ merged' = Append(merged, wReading)
    /\ wpc' = "recv"
    /\ UNCHANGED <<sending, wReading, wVal, wResult, hpc, hStart, hVisited,
                   body, crashed, completed>>
    /\ UNCHANGED <<chClosed, hQuiet>>
    /\ UNCHANGED notTable

\* main.go:80: m.lines[reading.Key] = reading, the key absent: the writer
\* enters runtime.mapassign.
WriterAssignNew ==
    /\ ~crashed
    /\ wpc = "assignNew"
    /\ wpc' = "assigningNew"
    /\ UNCHANGED <<lines, sending, wReading, wVal, wResult, hpc, hStart,
                   hVisited, body, crashed, completed, merged>>
    /\ UNCHANGED <<chClosed, hQuiet>>
    /\ UNCHANGED notTable

\* main.go:80: mapassign inserts the key with an empty (nil) slot and returns
\* the slot.
WriterInsertKey ==
    /\ ~crashed
    /\ wpc = "assigningNew"
    /\ lines' = MapStore(lines, wReading.Key, NilReading)
    /\ wpc' = "storeNew"
    /\ UNCHANGED <<sending, wReading, wVal, wResult, hpc, hStart, hVisited,
                   body, crashed, completed, merged>>
    /\ UNCHANGED <<chClosed, hQuiet>>
    /\ UNCHANGED notTable

\* A variant of WriterStoreNew that merges the first reading of a key into an
\* empty Reading instead of storing it as it is.
WriterStoreNewMerged ==
    /\ ~crashed
    /\ wpc = "storeNew"
    /\ lines' = MapStore(lines, wReading.Key,
                         Accept([ZeroReading EXCEPT !.Key = wReading.Key], wReading))
    /\ merged' = Append(merged, wReading)
    /\ wpc' = "recv"
    /\ UNCHANGED <<sending, wReading, wVal, wResult, hpc, hStart, hVisited,
                   body, crashed, completed>>
    /\ UNCHANGED <<chClosed, hQuiet>>
    /\ UNCHANGED notTable

\* main.go:80: the store of the pointer into the slot mapassign returned; the
\* loop goes back to the receive.
WriterStoreNew ==
    /\ ~crashed
    /\ wpc = "storeNew"
    /\ lines' = MapStore(lines, wReading.Key, wReading)
    /\ merged' = Append(merged, wReading)
    /\ wpc' = "recv"
    /\ UNCHANGED <<sending, wReading, wVal, wResult, hpc, hStart, hVisited,
                   body, crashed, completed>>
    /\ UNCHANGED <<chClosed, hQuiet>>
    /\ UNCHANGED notTable

\* ---------------------------------------------------------------- handler

\* fmt.Sprintf("%f", v) of a small non-negative whole number: its decimal
\* digits, a point and six zeros. The model keeps the two parts.
FormatF(v) == <<v, "000000">>

\* main.go:96-99: the four writes of one entry make one line of the body.
Line(k, v) == <<k, " ", FormatF(v.Value), "\n">>

\* The writer is inside runtime.mapassign (the map's hashWriting flag is set).
MapBeingWritten == wpc \in {"assigning", "assigningNew"}

\* Accept has allocated result for key k and the writer has not yet gone back
\* to the receive.
Constructing(k) ==
    /\ wpc \in {"copy", "value", "time", "assign", "assigning"}
    /\ wReading.Key = k

\* What an unsynchronized read of m.lines[k], made by another goroutine, can
\* return. The handler and the writer share no lock and no channel, so the
\* read races with the writer's stores: by the Go memory model it may observe
\* the pointer to the Reading under construction before the stores that fill
\* the Reading in, that is, with the fields as they are at any earlier point
\* of Accept.
Visible(k) ==
    {lines[k]} \cup (IF Constructing(k) THEN {wResult} ELSE {})

\* main.go:94-95: a request arrives; the range over m.lines begins.
HandlerStart ==
    /\ ~crashed
    /\ hpc \in {"idle", "done", "panic"}
    /\ hpc' = "iter"
    /\ hStart' = DOMAIN lines
    /\ hVisited' = {}
    /\ body' = <<>>
    /\ hQuiet' = (wpc = "recv")
    /\ UNCHANGED <<lines, sending, wpc, wReading, wVal, wResult, crashed,
                   completed, merged, chClosed>>
    /\ UNCHANGED notTable

\* main.go:95-99: the range produces an entry not produced yet and the handler
\* writes its line. A nil v makes v.Value panic; net/http recovers the panic
\* and drops the connection.
HandlerEntry(k) ==
    /\ ~crashed
    /\ hpc = "iter"
    /\ k \in DOMAIN lines
    /\ k \notin hVisited
    /\ \E v \in Visible(k) :
         IF v = NilReading
         THEN /\ hpc' = "panic"
              /\ hVisited' = {}
              /\ body' = body
         ELSE /\ hpc' = "iter"
              /\ hVisited' = hVisited \cup {k}
              /\ body' = Append(body, Line(k, v))
    /\ UNCHANGED <<lines, sending, wpc, wReading, wVal, wResult, hStart,
                   crashed, completed, merged>>
    /\ UNCHANGED <<chClosed, hQuiet>>
    /\ UNCHANGED notTable

\* main.go:95: the range's mapiternext finds the map marked as being written:
\* the runtime ends the process ("concurrent map iteration and map write").
HandlerFatal ==
    /\ ~crashed
    /\ hpc = "iter"
    /\ MapBeingWritten
    /\ crashed' = TRUE
    /\ UNCHANGED <<lines, sending, wpc, wReading, wVal, wResult, hpc, hStart,
                   hVisited, body, completed, merged>>
    /\ UNCHANGED <<chClosed, hQuiet>>
    /\ UNCHANGED notTable

\* A variant of HandlerReturn that may return before the range is over.
HandlerReturnEarly ==
    /\ ~crashed
    /\ hpc = "iter"
    /\ hpc' = "done"
    /\ hVisited' = {}
    /\ UNCHANGED <<lines, sending, wpc, wReading, wVal, wResult, hStart, body,
                   crashed, completed, merged>>
    /\ UNCHANGED <<chClosed, hQuiet>>
    /\ UNCHANGED notTable

\* main.go:100-101: the range ends and the handler returns. An entry added
\* while the range runs may be produced or skipped; the entries present when
\* it began are all produced.
HandlerReturn ==
    /\ ~crashed
    /\ hpc = "iter"
    /\ hStart \subseteq hVisited
    /\ hpc' = "done"
    /\ hVisited' = {}
    /\ UNCHANGED <<lines, sending, wpc, wReading, wVal, wResult, hStart, body,
                   crashed, completed, merged>>
    /\ UNCHANGED <<chClosed, hQuiet>>
    /\ UNCHANGED notTable

\* --------------------------------------------------- Reading.Accept, alone

\* The readings Accept is applied to on its own: every type for the receiver
\* and for the argument, and the values of the spec's examples.
AcceptValues == {0, 3, 5}
AcceptTimes == {1, 2}
AcceptReadings ==
    [Key : {"a"}, Value : AcceptValues, Time : AcceptTimes, Type : MetricTypes]

\* No call of Accept on its own.
AcceptOff ==
    /\ accR = ZeroReading
    /\ accN = ZeroReading
    /\ accOut = ZeroReading
    /\ accPc = "off"

\* A receiver and an argument are chosen.
AcceptInputs ==
    /\ accR \in AcceptReadings
    /\ accN \in AcceptReadings
    /\ accOut = ZeroReading
    /\ accPc = "call"

\* main.go:46-56: the call r.Accept(new) returns.
AcceptCall ==
    /\ accPc = "call"
    /\ accOut' = Accept(accR, accN)
    /\ accPc' = "ret"
    /\ UNCHANGED <<accR, accN, tableVars, watcherVars, pollerVars, sinkSends>>

\* ------------------------------------------------------------- NewWatcher

\* main.go:185, time.Sleep(2 * time.Second)
BackoffSeconds == 2

\* Failed Watch calls in a row that the history counts; more are counted as
\* this many.
MaxFailures == 2

\* Resume tokens (resourceVersions) the API server hands out.
Tokens == {"rv1", "rv2"}

\* What the result channel delivers. conv tells whether the conversion of the
\* event's object succeeds (scheme.Scheme.Convert for a bookmark,
\* watcher.Convert for the rest).
BookmarkEvents == [kind : {"bookmark"}, rv : Tokens, conv : BOOLEAN]
DataEvents == [kind : {"data"}, rv : {"rv1"}, conv : BOOLEAN]
Events == BookmarkEvents \cup DataEvents

NoEvent == [kind |-> "none", rv |-> "", conv |-> FALSE]

\* main.go:136-141: NewWatcher has started the goroutine: done false, no
\* bookmark; the Closer has not been invoked.
InitWatcher ==
    /\ wtpc = "top"
    /\ wtDone = FALSE
    /\ bookmark = ""
    /\ wtEvent = NoEvent
    /\ stream = "none"
    /\ evPending = <<>>
    /\ closerW = "idle"
    /\ sleepLeft = 0
    /\ lastRV = ""
    /\ watched = FALSE
    /\ lastSeen = ""
    /\ waited = 0
    /\ calledAtW = "none"
    /\ skipped = FALSE
    /\ againW = "idle"
    /\ failures = 0

\* What the watcher is doing at position pc: blocked in its select
\* ("suspended"), between two connections ("disconnected": in the sleep, at
\* the outer loop's test or about to call Watch) or busy with a stream.
WatcherPhase(pc) ==
    IF pc = "parked" THEN "suspended"
    ELSE IF pc \in {"sleep", "top", "connect"} THEN "disconnected"
    ELSE "streaming"

\* What a step of the watcher, its Closer or the API server leaves alone.
notWatcher == <<tableVars, accVars, pollerVars, sinkSends>>

\* main.go:142, for !done
WatcherTop ==
    /\ wtpc = "top"
    /\ wtpc' = IF wtDone THEN "exit" ELSE "connect"
    /\ UNCHANGED <<wtDone, bookmark, wtEvent, stream, evPending, closerW,
                   sleepLeft, lastRV, watched, lastSeen, waited, calledAtW, skipped,
                   againW, failures>>
    /\ UNCHANGED notWatcher

\* main.go:144-147: ResourceVersion is the bookmark when there is one.
ResourceVersion(bm) == IF bm # "" THEN bm ELSE ""

\* main.go:185 is reached: time.Sleep(2s) begins.
SleepBegins ==
    /\ wtpc' = "sleep"
    /\ sleepLeft' = BackoffSeconds

\* A variant of WatcherWatch in which a failed call ends the goroutine.
WatcherWatchFatal(ok) ==
    /\ wtpc = "connect"
    /\ lastRV' = ResourceVersion(bookmark)
    /\ watched' = TRUE
    /\ waited' = 0
    /\ failures' = IF ok THEN 0
                   ELSE IF failures < MaxFailures THEN failures + 1
                   ELSE failures
    /\ IF ok
       THEN /\ stream' = "open"
            /\ evPending' = <<>>
            /\ wtpc' = "select"
            /\ UNCHANGED sleepLeft
       ELSE /\ wtpc' = "exit"
            /\ UNCHANGED <<stream, evPending, sleepLeft>>
    /\ UNCHANGED <<wtDone, bookmark, wtEvent, closerW, lastSeen, calledAtW, skipped,
                   againW>>
    /\ UNCHANGED notWatcher

\* main.go:143-153: the Watch call. It fails (149-150, then the sleep of 185)
\* or returns a result channel (152-155, the inner loop's test holds: done is
\* false and open is true).
WatcherWatch(ok) ==
    /\ wtpc = "connect"
    /\ lastRV' = ResourceVersion(bookmark)
    /\ watched' = TRUE
    /\ waited' = 0
    /\ failures' = IF ok THEN 0
                   ELSE IF failures < MaxFailures THEN failures + 1
                   ELSE failures
    /\ IF ok
       THEN /\ stream' = "open"
            /\ evPending' = <<>>
            /\ wtpc' = "select"
            /\ UNCHANGED sleepLeft
       ELSE /\ SleepBegins
            /\ UNCHANGED <<stream, evPending>>
    /\ UNCHANGED <<wtDone, bookmark, wtEvent, closerW, lastSeen, calledAtW, skipped,
                   againW>>
    /\ UNCHANGED notWatcher

\* The cases of the select of main.go:156 that can proceed at once.
EventReady == evPending # <<>>
ClosedReady == stream = "closed" /\ evPending = <<>>
CloseReady == closerW = "sending" \/ againW = "sending"

\* main.go:156: the select finds a sender blocked on the result channel and
\* receives its event (one ready case is chosen among those ready).
WatcherSelectEvent ==
    /\ wtpc = "select"
    /\ EventReady
    /\ wtEvent' = evPending[1]
    /\ evPending' = <<>>
    /\ wtpc' = "gotEvent"
    /\ UNCHANGED <<wtDone, bookmark, stream, closerW, sleepLeft, lastRV,
                   watched, lastSeen, waited, calledAtW, skipped,
                   againW, failures>>
    /\ UNCHANGED notWatcher

\* main.go:156-157: the select finds the result channel closed.
WatcherSelectClosed ==
    /\ wtpc = "select"
    /\ ClosedReady
    /\ wtpc' = "gotClosed"
    /\ UNCHANGED <<wtDone, bookmark, wtEvent, stream, evPending, closerW,
                   sleepLeft, lastRV, watched, lastSeen, waited, calledAtW, skipped,
                   againW, failures>>
    /\ UNCHANGED notWatcher

\* main.go:179: the select finds a Closer call blocked in its send and
\* receives from it; that call's send completes.
WatcherSelectClose ==
    /\ wtpc = "select"
    /\ CloseReady
    /\ IF closerW = "sending"
       THEN closerW' = "returned" /\ UNCHANGED againW
       ELSE againW' = "returned" /\ UNCHANGED closerW
    /\ wtpc' = "gotClose"
    /\ UNCHANGED <<wtDone, bookmark, wtEvent, stream, evPending, sleepLeft,
                   lastRV, watched, lastSeen, waited, calledAtW, skipped, failures>>
    /\ UNCHANGED notWatcher

\* main.go:156: no case can proceed: the goroutine blocks in the select.
WatcherPark ==
    /\ wtpc = "select"
    /\ ~EventReady /\ ~ClosedReady /\ ~CloseReady
    /\ wtpc' = "parked"
    /\ UNCHANGED <<wtDone, bookmark, wtEvent, stream, evPending, closerW,
                   sleepLeft, lastRV, watched, lastSeen, waited, calledAtW, skipped,
                   againW, failures>>
    /\ UNCHANGED notWatcher

\* main.go:165-170: pod := apiv1.Pod{}; Convert; bookmark = pod.ResourceVersion.
\* A failed conversion is logged and the assignment is made all the same, from
\* the pod the conversion did not fill in.
BookmarkAfter(e) == IF e.conv THEN e.rv ELSE ""

\* A variant of WatcherEvent that gives up the stream when the conversion of a
\* data event fails.
WatcherEventStrict ==
    /\ wtpc = "gotEvent"
    /\ IF wtEvent.kind = "bookmark"
       THEN /\ bookmark' = BookmarkAfter(wtEvent)
            /\ lastSeen' = IF wtEvent.conv THEN wtEvent.rv ELSE lastSeen
       ELSE UNCHANGED <<bookmark, lastSeen>>
    /\ skipped' = (wtEvent.kind = "data" /\ ~wtEvent.conv)
    /\ wtEvent' = NoEvent
    /\ IF wtEvent.kind = "data" /\ ~wtEvent.conv
       THEN /\ stream' = "none"
            /\ evPending' = <<>>
            /\ SleepBegins
       ELSE /\ wtpc' = "select"
            /\ UNCHANGED <<stream, evPending, sleepLeft>>
    /\ UNCHANGED <<wtDone, closerW, lastRV, watched, waited, calledAtW, againW,
                   failures>>
    /\ UNCHANGED notWatcher

\* main.go:163-178: the event received is processed: a bookmark sets the
\* bookmark, any other event is converted and printed; then the inner loop's
\* test (155) holds again, done being false and the outer `open` still true.
WatcherEvent ==
    /\ wtpc = "gotEvent"
    /\ IF wtEvent.kind = "bookmark"
       THEN /\ bookmark' = BookmarkAfter(wtEvent)
            /\ lastSeen' = IF wtEvent.conv THEN wtEvent.rv ELSE lastSeen
       ELSE UNCHANGED <<bookmark, lastSeen>>
    /\ skipped' = (wtEvent.kind = "data" /\ ~wtEvent.conv)
    /\ wtEvent' = NoEvent
    /\ wtpc' = "select"
    /\ UNCHANGED <<wtDone, stream, evPending, closerW, sleepLeft, lastRV,
                   watched, waited, calledAtW, againW, failures>>
    /\ UNCHANGED notWatcher

\* A variant of WatcherClosed that reconnects without the sleep.
WatcherClosedNoSleep ==
    /\ wtpc = "gotClosed"
    /\ stream' = "none"
    /\ wtpc' = "top"
    /\ UNCHANGED <<wtDone, bookmark, wtEvent, evPending, closerW, sleepLeft,
                   lastRV, watched, lastSeen, waited, calledAtW, skipped,
                   againW, failures>>
    /\ UNCHANGED notWatcher

\* main.go:158-161: the stream was closed by the peer: break W, then the
\* sleep of 185.
WatcherClosed ==
    /\ wtpc = "gotClosed"
    /\ stream' = "none"
    /\ SleepBegins
    /\ UNCHANGED <<wtDone, bookmark, wtEvent, evPending, closerW, lastRV,
                   watched, lastSeen, waited, calledAtW, skipped,
                   againW, failures>>
    /\ UNCHANGED notWatcher

\* A variant of WatcherClose that leaves the inner loop without setting done.
WatcherCloseNotDone ==
    /\ wtpc = "gotClose"
    /\ SleepBegins
    /\ UNCHANGED <<wtDone, bookmark, wtEvent, stream, evPending, closerW,
                   lastRV, watched, lastSeen, waited, calledAtW, skipped,
                   againW, failures>>
    /\ UNCHANGED notWatcher

\* main.go:179-181: done = true; break W, then the sleep of 185.
WatcherClose ==
    /\ wtpc = "gotClose"
    /\ wtDone' = TRUE
    /\ SleepBegins
    /\ UNCHANGED <<bookmark, wtEvent, stream, evPending, closerW, lastRV,
                   watched, lastSeen, waited, calledAtW, skipped,
                   againW, failures>>
    /\ UNCHANGED notWatcher

\* One second of the watcher's sleep passes.
BackoffTick ==
    /\ wtpc = "sleep"
    /\ sleepLeft > 0
    /\ sleepLeft' = sleepLeft - 1
    /\ waited' = waited + 1
    /\ UNCHANGED <<wtpc, wtDone, bookmark, wtEvent, stream, evPending, closerW,
                   lastRV, watched, lastSeen, calledAtW, skipped,
                   againW, failures>>
    /\ UNCHANGED notWatcher

\* main.go:185-186: time.Sleep returns; back to the outer loop's test.
WatcherWake ==
    /\ wtpc = "sleep"
    /\ sleepLeft = 0
    /\ wtpc' = "top"
    /\ UNCHANGED <<wtDone, bookmark, wtEvent, stream, evPending, closerW,
                   sleepLeft, lastRV, watched, lastSeen, waited, calledAtW, skipped,
                   againW, failures>>
    /\ UNCHANGED notWatcher

\* The API server sends event e on the result channel: a watcher blocked in
\* the select receives it at once, otherwise the sender blocks.
ServerSend(e) ==
    /\ stream = "open"
    /\ evPending = <<>>
    /\ wtpc \in {"select", "parked", "gotEvent"}
    /\ IF wtpc = "parked"
       THEN /\ wtEvent' = e
            /\ wtpc' = "gotEvent"
            /\ UNCHANGED evPending
       ELSE /\ evPending' = <<e>>
            /\ UNCHANGED <<wtEvent, wtpc>>
    /\ UNCHANGED <<wtDone, bookmark, stream, closerW, sleepLeft, lastRV,
                   watched, lastSeen, waited, calledAtW, skipped,
                   againW, failures>>
    /\ UNCHANGED notWatcher

\* The peer closes the stream: the result channel is closed, which wakes a
\* watcher blocked in the select.
ServerClose ==
    /\ stream = "open"
    /\ evPending = <<>>
    /\ wtpc \in {"select", "parked", "gotEvent"}
    /\ stream' = "closed"
    /\ wtpc' = IF wtpc = "parked" THEN "gotClosed" ELSE wtpc
    /\ UNCHANGED <<wtDone, bookmark, wtEvent, evPending, closerW, sleepLeft,
                   lastRV, watched, lastSeen, waited, calledAtW, skipped,
                   againW, failures>>
    /\ UNCHANGED notWatcher

\* main.go:188-190: the Closer is invoked: close <- struct{}{} on the
\* unbuffered channel. A watcher blocked in the select receives at once and
\* the send completes; otherwise the caller blocks in the send.
CloserW ==
    /\ closerW = "idle"
    /\ wtpc # "exit"
    /\ calledAtW' = WatcherPhase(wtpc)
    /\ IF wtpc = "parked"
       THEN /\ closerW' = "returned"
            /\ wtpc' = "gotClose"
       ELSE /\ closerW' = "sending"
            /\ UNCHANGED wtpc
    /\ UNCHANGED <<wtDone, bookmark, wtEvent, stream, evPending, sleepLeft,
                   lastRV, watched, lastSeen, waited, skipped, againW,
                   failures>>
    /\ UNCHANGED notWatcher

\* main.go:188-190: the caller invokes the Closer a second time, the first
\* invocation having returned: one more close <- struct{}{}, which completes
\* only when the goroutine receives from close again.
CloserWAgain ==
    /\ closerW = "returned"
    /\ againW = "idle"
    /\ IF wtpc = "parked"
       THEN /\ againW' = "returned"
            /\ wtpc' = "gotClose"
       ELSE /\ againW' = "sending"
            /\ UNCHANGED wtpc
    /\ UNCHANGED <<wtDone, bookmark, wtEvent, stream, evPending, closerW,
                   sleepLeft, lastRV, watched, lastSeen, waited, calledAtW, skipped,
                   failures>>
    /\ UNCHANGED notWatcher

\* One step of the watcher goroutine (main.go:139-187).
WatcherRun ==
    \/ WatcherTop
    \/ \E ok \in BOOLEAN : WatcherWatch(ok)
    \/ WatcherSelectEvent
    \/ WatcherSelectClosed
    \/ WatcherSelectClose
    \/ WatcherPark
    \/ WatcherEvent
    \/ WatcherClosed
    \/ WatcherClose
    \/ WatcherWake

\* ------------------------------------------------------------- ShovelList

\* Items a List call returns at most.
MaxItems == 2

\* main.go:108-113: ShovelList has started the goroutine and its ticker.
InitPoller ==
    /\ plpc = "top"
    /\ plDone = FALSE
    /\ plErr = FALSE
    /\ plItems = 0
    /\ tickBuf = FALSE
    /\ closerL = "idle"
    /\ calledAtL = "none"
    /\ againL = "idle"
    /\ printed = FALSE

\* What the poller is doing at position pc: blocked in its select
\* ("suspended") or running.
PollerPhase(pc) == IF pc = "parked" THEN "suspended" ELSE "running"

\* What a step of the poller, its Closer or its ticker leaves alone.
notPoller == <<tableVars, accVars, watcherVars, sinkSends>>

\* main.go:114, for !done
PollerTop ==
    /\ plpc = "top"
    /\ plpc' = IF plDone THEN "exit" ELSE "select"
    /\ UNCHANGED <<plDone, plErr, plItems, tickBuf, closerL, calledAtL,
                   againL, printed>>
    /\ UNCHANGED notPoller

\* main.go:115-116: the select finds a tick in ticker.C and receives it.
PollerSelectTick ==
    /\ plpc = "select"
    /\ tickBuf
    /\ tickBuf' = FALSE
    /\ plpc' = "gotTick"
    /\ UNCHANGED <<plDone, plErr, plItems, closerL, calledAtL,
                   againL, printed>>
    /\ UNCHANGED notPoller

\* main.go:125: the select finds a Closer call blocked in its send and
\* receives from it; that call's send completes.
PollerSelectClose ==
    /\ plpc = "select"
    /\ closerL = "sending" \/ againL = "sending"
    /\ IF closerL = "sending"
       THEN closerL' = "returned" /\ UNCHANGED againL
       ELSE againL' = "returned" /\ UNCHANGED closerL
    /\ plpc' = "gotClose"
    /\ UNCHANGED <<plDone, plErr, plItems, tickBuf, calledAtL, printed>>
    /\ UNCHANGED notPoller

\* main.go:115: no case can proceed: the goroutine blocks in the select.
PollerPark ==
    /\ plpc = "select"
    /\ ~tickBuf
    /\ closerL # "sending" /\ againL # "sending"
    /\ plpc' = "parked"
    /\ UNCHANGED <<plDone, plErr, plItems, tickBuf, closerL, calledAtL,
                   againL, printed>>
    /\ UNCHANGED notPoller

\* A variant of PollerList in which a failed call ends the goroutine.
PollerListFatal(ok, n) ==
    /\ plpc = "gotTick"
    /\ plErr' = ~ok
    /\ plItems' = IF ok THEN n ELSE 0
    /\ plpc' = IF ok THEN "items" ELSE "exit"
    /\ UNCHANGED <<plDone, tickBuf, closerL, calledAtL,
                   againL, printed>>
    /\ UNCHANGED notPoller

\* main.go:117-120: the List call: it fails (the error is logged and list is
\* nil, of no items) or returns n items.
PollerList(ok, n) ==
    /\ plpc = "gotTick"
    /\ plErr' = ~ok
    /\ plItems' = IF ok THEN n ELSE 0
    /\ plpc' = "items"
    /\ UNCHANGED <<plDone, tickBuf, closerL, calledAtL,
                   againL, printed>>
    /\ UNCHANGED notPoller

\* A variant of PollerItem with the send of main.go:123 in effect.
PollerItemSends ==
    /\ plpc = "items"
    /\ plItems > 0
    /\ plItems' = plItems - 1
    /\ printed' = TRUE
    /\ sinkSends' = sinkSends + 1
    /\ UNCHANGED <<plpc, plDone, plErr, tickBuf, closerL, calledAtL, againL>>
    /\ UNCHANGED <<tableVars, accVars, watcherVars>>

\* main.go:121-124: one item of the range is printed; the send to the sink is
\* commented out.
PollerItem ==
    /\ plpc = "items"
    /\ plItems > 0
    /\ plItems' = plItems - 1
    /\ printed' = TRUE
    /\ UNCHANGED <<plpc, plDone, plErr, tickBuf, closerL, calledAtL, againL>>
    /\ UNCHANGED notPoller

\* main.go:121: the range is over; back to the loop's test.
PollerItemsDone ==
    /\ plpc = "items"
    /\ plItems = 0
    /\ plpc' = "top"
    /\ UNCHANGED <<plDone, plErr, plItems, tickBuf, closerL, calledAtL,
                   againL, printed>>
    /\ UNCHANGED notPoller

\* A variant of PollerClose that goes back to the select without setting done.
PollerCloseNotDone ==
    /\ plpc = "gotClose"
    /\ plpc' = "top"
    /\ UNCHANGED <<plDone, plErr, plItems, tickBuf, closerL, calledAtL,
                   againL, printed>>
    /\ UNCHANGED notPoller

\* main.go:125-126: done = true; back to the loop's test.
PollerClose ==
    /\ plpc = "gotClose"
    /\ plDone' = TRUE
    /\ plpc' = "top"
    /\ UNCHANGED <<plErr, plItems, tickBuf, closerL, calledAtL,
                   againL, printed>>
    /\ UNCHANGED notPoller

\* main.go:112: the ticker fires: a poller blocked in the select receives the
\* tick at once; otherwise the tick goes to ticker.C's one-slot buffer, and is
\* dropped when the slot is taken.
TickerFire ==
    /\ plpc # "exit"
    /\ IF plpc = "parked"
       THEN /\ plpc' = "gotTick"
            /\ UNCHANGED tickBuf
       ELSE /\ tickBuf' = TRUE
            /\ UNCHANGED plpc
    /\ UNCHANGED <<plDone, plErr, plItems, closerL, calledAtL,
                   againL, printed>>
    /\ UNCHANGED notPoller

\* main.go:130-132: the Closer is invoked: close <- struct{}{}. A poller
\* blocked in the select receives at once; otherwise the caller blocks.
CloserL ==
    /\ closerL = "idle"
    /\ plpc # "exit"
    /\ calledAtL' = PollerPhase(plpc)
    /\ IF plpc = "parked"
       THEN /\ closerL' = "returned"
            /\ plpc' = "gotClose"
       ELSE /\ closerL' = "sending"
            /\ UNCHANGED plpc
    /\ UNCHANGED <<plDone, plErr, plItems, tickBuf, againL, printed>>
    /\ UNCHANGED notPoller

\* main.go:130-132: the caller invokes the Closer a second time, the first
\* invocation having returned.
CloserLAgain ==
    /\ closerL = "returned"
    /\ againL = "idle"
    /\ IF plpc = "parked"
       THEN /\ againL' = "returned"
            /\ plpc' = "gotClose"
       ELSE /\ againL' = "sending"
            /\ UNCHANGED plpc
    /\ UNCHANGED <<plDone, plErr, plItems, tickBuf, closerL, calledAtL,
                   printed>>
    /\ UNCHANGED notPoller

\* One step of the poller goroutine (main.go:111-129).
PollerRun ==
    \/ PollerTop
    \/ PollerSelectTick
    \/ PollerSelectClose
    \/ PollerPark
    \/ \E ok \in BOOLEAN, n \in 0..MaxItems : PollerList(ok, n)
    \/ PollerItem
    \/ PollerItemsDone
    \/ PollerClose

\* ------------------------------------------------------- specifications

\* main.go:226-240: the table, the watcher and the poller as main starts them.
Init ==
    /\ InitTable
    /\ AcceptOff
    /\ InitWatcher
    /\ InitPoller
    /\ sinkSends = 0

\* One step of the writer goroutine (main.go:70-83).
WriterStep ==
    \/ \E p \in Procs : WriterRecv(p)
    \/ WriterLookup
    \/ AcceptAlloc
    \/ AcceptCopyStep
    \/ AcceptValueStep
    \/ AcceptTimeStep
    \/ WriterAssign
    \/ WriterStoreMerged
    \/ WriterAssignNew
    \/ WriterInsertKey
    \/ WriterStoreNew

\* The readings the collaborators produce: Type is Counter or Instant.
TypedReadings == {r \in Readings : r.Type # Unset}

\* The table and its producers; a producer may also submit a Reading whose
\* Type was never set.
NextTable ==
    \/ \E p \in Procs, r \in Readings : ProducerSend(p, r)
    \/ WriterStep

SpecTable == Init /\ [][NextTable]_vars

\* The table and its producers, who close the channel when they are done.
NextClose ==
    \/ \E p \in Procs, r \in Readings : ProducerSend(p, r)
    \/ WriterStep
    \/ CloseChannel
    \/ WriterRecvClosed

SpecClose == Init /\ [][NextClose]_vars

\* The table, the HTTP handler and one producer, of readings of the two
\* defined types.
NextServe ==
    \/ \E r \in TypedReadings : ProducerSend("p1", r)
    \/ WriterStep
    \/ HandlerStart
    \/ \E k \in Keys : HandlerEntry(k)
    \/ HandlerFatal
    \/ HandlerReturn

SpecServe == Init /\ [][NextServe]_vars

\* Reading.Accept applied once to a receiver and an argument.
InitAccept ==
    /\ InitTable
    /\ AcceptInputs
    /\ InitWatcher
    /\ InitPoller
    /\ sinkSends = 0

SpecAccept == InitAccept /\ [][AcceptCall]_vars

\* The watcher and the poller, their Closers, the API server and the clock.
NextTasks ==
    \/ WatcherRun
    \/ BackoffTick
    \/ \E e \in Events : ServerSend(e)
    \/ ServerClose
    \/ CloserW
    \/ PollerRun
    \/ TickerFire
    \/ CloserL

SpecTasks == Init /\ [][NextTasks]_vars

\* The events of a stream whose every conversion succeeds and whose bookmarks
\* all carry one token.
PlainEvents == {e \in Events : e.conv /\ e.rv = "rv1"}

\* The tasks, their Closers, the clock and an API server that sends only
\* PlainEvents.
NextPlain ==
    \/ WatcherRun
    \/ BackoffTick
    \/ \E e \in PlainEvents : ServerSend(e)
    \/ ServerClose
    \/ CloserW
    \/ PollerRun
    \/ TickerFire
    \/ CloserL

\* The same under fair scheduling: a goroutine that can take a step is run
\* (the Go scheduler starves no runnable goroutine), and a sleep's time passes.
FairTasks ==
    /\ Init
    /\ [][NextPlain]_vars
    /\ WF_vars(WatcherRun)
    /\ WF_vars(BackoffTick)
    /\ WF_vars(PollerRun)

\* The watcher on its own, with its Closer, the API server and the clock.
NextWatcher ==
    \/ WatcherRun
    \/ BackoffTick
    \/ \E e \in Events : ServerSend(e)
    \/ ServerClose
    \/ CloserW

\* The watcher under fair scheduling.
FairWatcher ==
    /\ Init
    /\ [][NextWatcher]_vars
    /\ WF_vars(WatcherRun)
    /\ WF_vars(BackoffTick)

\* The same tasks with a caller that invokes each Closer up to twice, the
\* second time after the first invocation has returned.
NextTwice ==
    \/ NextPlain
    \/ CloserWAgain
    \/ CloserLAgain

SpecTwice == Init /\ [][NextTwice]_vars

\* ------------------------------------------------------- the table's claims

\* The readings of seq submitted for key k, in seq's order.
ForKey(seq, k) == SelectSeq(seq, LAMBDA r : r.Key = k)

\* The left fold of the merge rule over a non-empty sequence of readings: the
\* first reading as it is, every later one merged into the fold so far.
RECURSIVE LeftFold(_)
LeftFold(seq) ==
    IF Len(seq) = 1 THEN seq[1]
    ELSE Accept(LeftFold(SubSeq(seq, 1, Len(seq) - 1)), seq[Len(seq)])

\* C1: whenever the writer has processed every reading whose send completed,
\* each key holds the left fold of Reading.Accept over the readings sent for
\* it, in the order their sends completed, the first one stored verbatim; a
\* key nothing was sent for is absent.
C1_StoredIsLeftFold ==
    wpc = "recv" =>
        \A k \in Keys :
            LET s == ForKey(completed, k) IN
            IF s = <<>> THEN k \notin DOMAIN lines
            ELSE k \in DOMAIN lines /\ lines[k] = LeftFold(s)

\* C1 witness: three readings of one key, not all of one type, sent and merged.
C1_Witness ==
    /\ wpc = "recv"
    /\ Len(ForKey(completed, "a")) = 3
    /\ completed[1].Type = Counter
    /\ completed[2].Type = Counter
    /\ completed[3].Type = Instant
    /\ lines["a"].Value = 1

\* C2: Accept's result is decided by the Type of the incoming reading alone:
\* a Counter adds its Value to the receiver's and sets the Time, an Instant
\* replaces Value and Time, any other Type returns the receiver as it is,
\* whatever the receiver's Type. Counter{5} then Instant{3} gives 3, and
\* Instant{3} then Counter{5} gives 8.
C2_AcceptByIncomingType ==
    accPc = "ret" =>
        /\ accN.Type = Counter =>
              accOut.Value = accR.Value + accN.Value /\ accOut.Time = accN.Time
        /\ accN.Type = Instant =>
              accOut.Value = accN.Value /\ accOut.Time = accN.Time
        /\ accN.Type \notin {Counter, Instant} => accOut = accR
        /\ (accR.Type = Counter /\ accR.Value = 5
              /\ accN.Type = Instant /\ accN.Value = 3) => accOut.Value = 3
        /\ (accR.Type = Instant /\ accR.Value = 3
              /\ accN.Type = Counter /\ accN.Value = 5) => accOut.Value = 8

\* C2 witness: Accept has returned 8 for a Counter{5} merged into an Instant{3}.
C2_Witness ==
    /\ accPc = "ret"
    /\ accR.Type = Instant /\ accR.Value = 3
    /\ accN.Type = Counter /\ accN.Value = 5
    /\ accOut.Value = 8
    /\ accOut.Time = accN.Time
    /\ accR.Time # accN.Time

\* C3: the readings are merged in the order their sends completed, each once:
\* the merges done so far are the completed sends in their order, short of at
\* most the one reading the writer holds, and of none when it is back at the
\* receive.
C3_MergedInSendOrder ==
    /\ Len(merged) <= Len(completed)
    /\ merged = SubSeq(completed, 1, Len(merged))
    /\ Len(completed) <= Len(merged) + 1
    /\ (wpc = "recv" => merged = completed)

\* C3 witness: two producers were blocked in their sends at once, the reading
\* observed later was received first, and both were merged for the same key.
C3_Witness ==
    /\ Len(merged) >= 2
    /\ merged[1].Key = merged[2].Key
    /\ merged[1].Time > merged[2].Time
    /\ wpc = "recv"

\* C4: the handler never ranges over m.lines while the writer is in the
\* middle of writing an entry of it (inside mapassign, or between mapassign
\* creating the slot and the store into it).
C4_NoIterationDuringWrite ==
    ~(hpc = "iter" /\ wpc \in {"assigning", "assigningNew", "storeNew"})

\* The readings the writer stores for key k over the run: the folds of the
\* non-empty prefixes of the readings received for k.
StoredFor(k) ==
    LET s == ForKey(completed, k) IN
    {LeftFold(SubSeq(s, 1, n)) : n \in 1..Len(s)}

\* C5: the handler never reads a partially written entry: it never finds a
\* key whose slot holds no Reading, and every line it writes for a key shows
\* one of the readings the writer stores for that key.
C5_NoTornRead ==
    /\ hpc # "panic"
    /\ \A i \in 1..Len(body) :
         \E r \in StoredFor(body[i][1]) : body[i] = Line(body[i][1], r)

\* C6: no step removes a key from the table.
C6_KeysNeverShrink ==
    [][DOMAIN lines \subseteq DOMAIN lines']_vars

\* C6 witness: both keys were added, one of them merged into again, and a
\* request was served since.
C6_Witness ==
    /\ DOMAIN lines = Keys
    /\ Len(merged) = 3
    /\ hpc = "done"
    /\ Len(body) = 2

\* ------------------------------------------------------- the tasks' claims

\* The step is a Watch call of the watcher.
WatchCalled == wtpc = "connect" /\ wtpc' # "connect"

\* The step is the watcher processing an event it received.
EventProcessed == wtpc = "gotEvent" /\ wtpc' # "gotEvent"

\* The step is a List call of the poller.
ListCalled == plpc = "gotTick" /\ plpc' # "gotTick"

\* C7: every Watch call carries as ResourceVersion the token of the latest
\* bookmark event whose token the watcher has extracted, in whatever session
\* and however many connect attempts ago, and none only when there was no such
\* event.
C7_ResumeFromLastBookmark ==
    [][WatchCalled => lastRV' = lastSeen]_vars

\* C8: a Watch call that is not the first is made only after the full backoff
\* has been slept since the Watch call before it.
C8_BackoffBetweenWatches ==
    [][(WatchCalled /\ watched) => waited >= BackoffSeconds]_vars

\* C8 witness: the watcher is about to call Watch again, a stream having been
\* opened, closed by the peer and the backoff slept in full since.
C8_Witness ==
    /\ wtpc = "connect"
    /\ watched
    /\ closerW = "idle"
    /\ stream = "none"
    /\ bookmark = "rv2"
    /\ waited = BackoffSeconds

\* C9: a Closer invoked while its task is blocked in its select returns; from
\* then on the task calls neither Watch nor List, processes no event and
\* sends nothing to the sink; and the task terminates.
C9_CancelAtCheckpoint ==
    /\ [](calledAtW = "suspended" => closerW = "returned")
    /\ [](calledAtL = "suspended" => closerL = "returned")
    /\ [][calledAtW = "suspended" =>
            ~WatchCalled /\ ~EventProcessed /\ sinkSends' = sinkSends]_vars
    /\ [][calledAtL = "suspended" =>
            ~ListCalled /\ sinkSends' = sinkSends]_vars
    /\ (calledAtW = "suspended" ~> wtpc = "exit")
    /\ (calledAtL = "suspended" ~> plpc = "exit")

\* C9 witness: both Closers were invoked on a task blocked in its select, the
\* watcher's in the middle of a stream after a bookmark, and both tasks have
\* terminated.
C9_Witness ==
    /\ calledAtW = "suspended" /\ closerW = "returned" /\ wtpc = "exit"
    /\ calledAtL = "suspended" /\ closerL = "returned" /\ plpc = "exit"
    /\ bookmark = "rv1"
    /\ stream = "open"

\* C10: once the Closer has been invoked on a disconnected watcher (in its
\* sleep, at the outer loop's test or about to connect), the watcher makes no
\* further Watch call.
C10_CloseWhileDisconnected ==
    [][calledAtW = "disconnected" => ~WatchCalled]_vars

\* C11: a second invocation of a task's Closer, made after the first one was
\* received, never returns: once the first signal is received the goroutine
\* never receives from close again, so the caller stays blocked in the send on
\* the unbuffered channel, also after the task has terminated.
C11_SecondCloseBlocks ==
    /\ againW # "returned"
    /\ againL # "returned"
    /\ (againW # "idle" => wtDone \/ wtpc = "gotClose")
    /\ (againL # "idle" => plDone \/ plpc = "gotClose")

\* C11 witness: both tasks have terminated and the second invocation of each
\* Closer is blocked in its send.
C11_Witness ==
    /\ wtpc = "exit" /\ closerW = "returned" /\ againW = "sending"
    /\ plpc = "exit" /\ closerL = "returned" /\ againL = "sending"

\* C12: while no shutdown has been signalled, a failed Watch call, however
\* many have failed in a row, and a stream closed by the peer are each
\* followed by the full backoff and then by another Watch call (the one step
\* that sets `waited` back to 0).
C12_RetryAfterFailure ==
    /\ (failures > 0 /\ closerW = "idle")
          ~> (waited = BackoffSeconds \/ closerW # "idle")
    /\ (stream = "closed" /\ closerW = "idle")
          ~> (waited = BackoffSeconds \/ closerW # "idle")
    /\ (waited = BackoffSeconds /\ closerW = "idle")
          ~> (waited = 0 \/ closerW # "idle")

\* C12 witness: the watcher is about to call Watch again after as many failed
\* calls in a row as the history counts, no shutdown signalled.
C12_Witness ==
    /\ wtpc = "connect"
    /\ failures = MaxFailures
    /\ waited = BackoffSeconds
    /\ closerW = "idle"

\* C13: the step in which the watcher processes a data event whose conversion
\* succeeds makes a send on the sink channel.
C13_DataEventSent ==
    [][(EventProcessed /\ wtEvent.kind = "data" /\ wtEvent.conv)
          => sinkSends' = sinkSends + 1]_vars

\* The keys of the lines written to the body.
BodyKeys == {body[i][1] : i \in 1..Len(body)}

\* C14: a request during which the writer stays blocked in its receive (no
\* merge in progress) does not fail; every line it writes is a key of the
\* table, a space, the key's stored Value formatted by %f and a newline; no
\* key is written twice; and when the handler returns the body has one line
\* per key of the table, so none for an empty table.
C14_QuietRequest ==
    hQuiet =>
        /\ hpc \in {"iter", "done"}
        /\ ~crashed
        /\ \A i \in 1..Len(body) :
              /\ body[i][1] \in DOMAIN lines
              /\ body[i] = Line(body[i][1], lines[body[i][1]])
        /\ \A i, j \in 1..Len(body) : body[i][1] = body[j][1] => i = j
        /\ (hpc = "done" => BodyKeys = DOMAIN lines)
        /\ (hpc = "done" /\ lines = <<>> => body = <<>>)

\* C14 witness: a request served from a table of two keys, one of them merged
\* into, the writer idle throughout.
C14_Witness ==
    /\ hQuiet
    /\ hpc = "done"
    /\ Len(body) = 2
    /\ "a" \in DOMAIN lines /\ lines["a"].Value = 2
    /\ body[1] = <<"b", " ", <<1, "000000">>, "\n">>
    /\ body[2] = <<"a", " ", <<2, "000000">>, "\n">>

\* C15: the poller gets to the List call only by receiving a tick, and leaves
\* it for the range over the result, so it calls List once per tick received;
\* after a failed call the range has no item, no item is printed, done stays
\* false and the poller goes back to the loop's test and from there, unless
\* done was set by a shutdown signal, to the select: it does not terminate.
C15_ListOncePerTick ==
    /\ [][(plpc' = "gotTick" /\ plpc # "gotTick")
            => /\ plpc \in {"select", "parked"}
               /\ (plpc = "select" => tickBuf /\ ~tickBuf')]_vars
    /\ [][ListCalled => plpc' = "items" /\ (plErr' => plItems' = 0)]_vars
    /\ [][(plpc = "items" /\ plErr)
            => /\ plItems' = 0 /\ printed' = printed /\ plDone' = plDone
               /\ plpc' \in {"items", "top"}]_vars
    /\ [][(plpc = "top" /\ ~plDone) => plpc' \in {"top", "select"}]_vars

\* C15 witness: after a failed List call the poller is blocked in its select
\* again, waiting for a tick or the shutdown signal.
C15_Witness ==
    /\ plErr
    /\ plpc = "parked"
    /\ ~plDone
    /\ ~tickBuf
    /\ closerL = "idle"

C17_PollerNeverSends ==
    [][pollerVars' # pollerVars
         => sinkSends' = sinkSends /\ UNCHANGED tableVars]_vars

\* C17 witness: the poller has printed an item of a list, a later List call
\* has failed, the poller has terminated on the shutdown signal, and nothing
\* was sent to the sink.
C17_Witness ==
    /\ printed
    /\ plErr
    /\ plpc = "exit"
    /\ closerL = "returned"
    /\ sinkSends = 0
    /\ lines = <<>>

\* C18: the step the writer takes at its receive once the channel is closed
\* leaves the loop without a panic and leaves the table as it is.
C18_CleanExitOnClose ==
    [][(wpc = "recv" /\ chClosed /\ wpc' # "recv")
          => wpc' = "exit" /\ ~crashed' /\ lines' = lines]_vars

\* C19: the step that processes a bookmark event whose conversion failed
\* leaves the bookmark as it was, so the Watch call that follows still carries
\* the token of the latest bookmark event converted.
C19_FailedBookmarkKeepsToken ==
    [][(EventProcessed /\ wtEvent.kind = "bookmark" /\ ~wtEvent.conv)
          => bookmark' = bookmark /\ ResourceVersion(bookmark') = lastSeen]_vars

\* C20: every reading stored in the table is stored under its own Key and has
\* the Type of the first reading sent for that key; a merge of a reading of
\* another Type leaves the stored Type as it was.
C20_KeyAndTypeOfFirst ==
    \A k \in DOMAIN lines :
        lines[k] # NilReading =>
            /\ lines[k].Key = k
            /\ ForKey(completed, k) # <<>>
            /\ lines[k].Type = ForKey(completed, k)[1].Type

\* C20 witness: a key first sent as an Instant has had a Counter and then a
\* reading of no Type merged into it and is still stored as an Instant.
C20_Witness ==
    /\ wpc = "recv"
    /\ Len(merged) = 3
    /\ \A i \in 1..3 : merged[i].Key = "b"
    /\ merged[1].Type = Instant
    /\ merged[2].Type = Counter
    /\ merged[3].Type = Unset
    /\ lines["b"].Type = Instant
    /\ lines["b"].Value = 2

====
